---- MODULE Spec2Model ----
(***************************************************************************)
(* Model of fastkafka/_components/docs_dependencies.py: the npm version    *)
(* check, the check with the local NodeJS fallback, the NodeJS installer   *)
(* and the asynchronous installation of the AsyncAPI generator.            *)
(*                                                                         *)
(* Text is a sequence of string atoms (single characters, or literals of   *)
(* the source kept whole); bytes are sequences of integers 0..255.         *)
(***************************************************************************)
EXTENDS Integers, Sequences, FiniteSets, TLC

(* ------------------------------ bounds --------------------------------- *)
\* largest npm major version a directory may hold
MaxMajor == 10
\* largest absolute exit code of the generator child process
MaxReturnCode == 1
\* number of operations one behaviour invokes
MaxCalls == 2

(* ------------------------ program constants ---------------------------- *)
npm_required_major_version == 9

(* ------------------------------ text ----------------------------------- *)
Digits == <<"0", "1", "2", "3", "4", "5", "6", "7", "8", "9">>

RECURSIVE NatToStr(_)
NatToStr(n) ==
    IF n < 10 THEN <<Digits[n + 1]>>
    ELSE NatToStr(n \div 10) \o <<Digits[(n % 10) + 1]>>

\* f"{n}" of an int
ToStr(n) == IF n < 0 THEN <<"-">> \o NatToStr(0 - n) ELSE NatToStr(n)

\* the character of a code point, for the code points the model uses
Chr(cp) ==
    CASE cp \in 48..57 -> Digits[cp - 47]
      [] cp = 10  -> "\n"
      [] cp = 46  -> "."
      [] cp = 107 -> "k"
      [] cp = 111 -> "o"
      [] cp = 233 -> "U+00E9"
      [] OTHER    -> "U+FFFF"

\* bytes.decode("UTF-8"), strict, for the one- and two-byte forms:
\* the decoded text, or the UnicodeDecodeError
RECURSIVE DecodeFrom(_, _, _)
DecodeFrom(b, i, acc) ==
    IF i > Len(b) THEN [ok |-> TRUE, text |-> acc]
    ELSE IF b[i] < 128 THEN DecodeFrom(b, i + 1, Append(acc, Chr(b[i])))
    ELSE IF /\ b[i] \in 194..223
            /\ i + 1 <= Len(b)
            /\ b[i + 1] \in 128..191
         THEN DecodeFrom(b, i + 2,
                         Append(acc, Chr((b[i] - 192) * 64 + (b[i + 1] - 128))))
    ELSE [ok |-> FALSE, text |-> <<>>]

Decode(b) == DecodeFrom(b, 1, <<>>)

\* str.split(sep): the pieces of s between the occurrences of sep
RECURSIVE SplitFrom(_, _, _, _, _)
SplitFrom(s, sep, i, cur, acc) ==
    IF i > Len(s) THEN Append(acc, cur)
    ELSE IF s[i] = sep THEN SplitFrom(s, sep, i + 1, <<>>, Append(acc, cur))
    ELSE SplitFrom(s, sep, i + 1, Append(cur, s[i]), acc)

Split(s, sep) == SplitFrom(s, sep, 1, <<>>, <<>>)

DigitValue(c) == CHOOSE d \in 0..9 : Digits[d + 1] = c

IsDigit(c) == \E d \in 0..9 : Digits[d + 1] = c

\* int() strips surrounding whitespace
RECURSIVE StripRight(_)
StripRight(s) ==
    IF s # <<>> /\ s[Len(s)] = "\n" THEN StripRight(SubSeq(s, 1, Len(s) - 1))
    ELSE s

RECURSIVE DigitsToNat(_)
DigitsToNat(s) ==
    IF s = <<>> THEN 0
    ELSE DigitsToNat(SubSeq(s, 1, Len(s) - 1)) * 10 + DigitValue(s[Len(s)])

\* int(text) of a decimal literal: the value, or -1 for the ValueError
ParseInt(s) ==
    LET t == StripRight(s)
    IN  IF t # <<>> /\ \A i \in 1..Len(t) : IsDigit(t[i])
        THEN DigitsToNat(t)
        ELSE -1

(* --------------------------- module globals ---------------------------- *)
\* platform.system(): "Windows", or a system that takes the other branch
Platforms == {"Windows", "Linux"}

node_version == <<"v18.15.0">>

node_fname_suffix(plat) ==
    IF plat = "Windows" THEN <<"win-x64">> ELSE <<"linux-x64">>

node_fname(plat) == <<"node-">> \o node_version \o <<"-">> \o node_fname_suffix(plat)

node_fname_extension(plat) ==
    IF plat = "Windows" THEN <<".zip">> ELSE <<".tar.xz">>

node_url(plat) ==
    <<"https://nodejs.org/dist/">> \o node_version \o <<"/">>
        \o node_fname(plat) \o node_fname_extension(plat)

\* pathlib's "/" operator followed by str()
PathJoin(plat, p, name) ==
    p \o <<IF plat = "Windows" THEN "\\" ELSE "/">> \o name

local_path(plat) ==
    IF plat = "Windows" THEN <<"C:\\Users", "\\", "Public">>
    ELSE <<"~", "/", ".local">>

tgz_path(plat) ==
    PathJoin(plat, local_path(plat), node_fname(plat) \o node_fname_extension(plat))

node_path(plat) == PathJoin(plat, local_path(plat), node_fname(plat))

\* os.pathsep
PathSep(plat) == IF plat = "Windows" THEN ";" ELSE ":"

\* the directory of the local runtime that holds the npm executable
NodeBinDir(plat) ==
    IF plat = "Windows" THEN node_path(plat)
    ELSE PathJoin(plat, node_path(plat), <<"bin">>)

(* ------------------------------ state ---------------------------------- *)
VARIABLES
    platform,        \* platform.system()
    PATH,            \* os.environ["PATH"], a text
    npmAt,           \* system directory -> the npm executable it holds
    nodePathExists,  \* node_path.exists()
    localNpm,        \* the npm executable of the local runtime
    localPathExists, \* local_path exists
    archive,         \* the file at tgz_path
    op,              \* the operation in progress
    pc,              \* its position
    args,            \* its arguments
    result,          \* how the last operation ended
    caught,          \* the exception bound to e in _check_npm_with_local
    calls,           \* operations invoked so far
    startPATH,       \* PATH when the operation in progress was invoked
    startFs,         \* the file system and the totals at that moment
    checkCalls,      \* _check_npm calls of the operation in progress
    probeRuns,       \* "npm --version" runs of the operation in progress
    pathExtends,     \* assignments to PATH of the operation in progress
    downloads,       \* completed downloads, all operations
    extracts,        \* completed extractions, all operations
    trail,           \* the steps of the operation in progress, in order
    tmpExists,       \* the TemporaryDirectory exists on disk
    child,           \* the generator child process
    proc             \* its return code and captured output

vars == <<platform, PATH, npmAt, nodePathExists, localNpm, localPathExists,
          archive, op, pc, args, result, caught, calls, startPATH, startFs,
          checkCalls,
          probeRuns, pathExtends, downloads, extracts, trail, tmpExists,
          child, proc>>

fsVars == <<npmAt, nodePathExists, localNpm, localPathExists, archive>>
docsVars == <<tmpExists, child, proc>>

(* --------------------------- the file system --------------------------- *)
SysDirs == {<<"/usr/bin">>, <<"/opt/bin">>}

Majors == (npm_required_major_version - 1)..MaxMajor

\* what "npm --version" of an npm with major version m writes: b"m.5.1\n"
VersionBytes(m) ==
    [i \in 1..Len(ToStr(m)) |-> 48 + DigitValue(ToStr(m)[i])] \o <<46, 53, 46, 49, 10>>

NoNpm == [present |-> FALSE, out |-> <<>>]
Npm(m) == [present |-> TRUE, out |-> VersionBytes(m)]
NpmChoices == {NoNpm} \cup {Npm(m) : m \in Majors}

\* the npm executable in a directory named by a PATH entry
NpmIn(entry) ==
    IF entry \in SysDirs THEN npmAt[entry]
    ELSE IF entry = NodeBinDir(platform) /\ nodePathExists THEN localNpm
    ELSE NoNpm

\* shutil.which("npm"): the first PATH entry that holds npm, 0 for None
\* (the current directory, which Windows searches first, holds no npm)
Which(path) ==
    LET entries == Split(path, PathSep(platform))
        hits == {i \in 1..Len(entries) : NpmIn(entries[i]).present}
    IN  IF hits = {} THEN 0
        ELSE CHOOSE i \in hits : \A j \in hits : i <= j

WhichEntry(path) == Split(path, PathSep(platform))[Which(path)]

(* ------------------------------ results -------------------------------- *)
NoResult == [status |-> "none", kind |-> "", msg |-> <<>>]
Ok == [status |-> "ok", kind |-> "", msg |-> <<>>]
Raise(kind, msg) == [status |-> "error", kind |-> kind, msg |-> msg]

VersionTooLowMsg(v, r) ==
    <<"Found installed npm major version: ">> \o ToStr(v)
        \o <<", required npx major version: ">> \o ToStr(r)
        \o <<". To use documentation features of FastKafka, please update npm">>

ToolNotFoundMsg(r) ==
    <<"npm not found, to use documentation generation features of FastKafka, you must have npm >= ">>
        \o ToStr(r) \o <<" installed">>

IsVersionTooLow(e) ==
    /\ e.status = "error" /\ e.kind = "RuntimeError"
    /\ e.msg[1] = "Found installed npm major version: "

IsToolNotFound(e) ==
    /\ e.status = "error" /\ e.kind = "RuntimeError"
    /\ e.msg[1] = "npm not found, to use documentation generation features of FastKafka, you must have npm >= "

(* ----------------------------- _check_npm ------------------------------ *)
\* the comparison of line 52 with an off-by-one
VersionBelowOrEqual(major_version, required_major_version) ==
    major_version <= required_major_version

\* the comparison of line 52
VersionBelow(major_version, required_major_version) ==
    major_version < required_major_version

\* proc.stdout.decode("UTF-8").split(".")[0], then int()
MajorOf(stdout) == ParseInt(Split(Decode(stdout).text, ".")[1])

\* _check_npm(required_major_version) under the given PATH:
\* how it ends, and whether "npm --version" was run
_check_npm(path, required_major_version) ==
    IF Which(path) # 0
    THEN LET stdout == NpmIn(WhichEntry(path)).out
             major_version == MajorOf(stdout)
         IN  [probed |-> TRUE,
              res |-> IF ~Decode(stdout).ok
                        THEN Raise("UnicodeDecodeError", <<>>)
                      ELSE IF major_version < 0
                        THEN Raise("ValueError", <<>>)
                      ELSE IF VersionBelow(major_version, required_major_version)
                        THEN Raise("RuntimeError",
                                   VersionTooLowMsg(major_version,
                                                    required_major_version))
                      ELSE Ok]
    ELSE [probed |-> FALSE,
          res |-> Raise("RuntimeError", ToolNotFoundMsg(required_major_version))]

(* ------------------------------- Init ---------------------------------- *)
RECURSIVE Join(_, _)
Join(entries, sep) ==
    IF entries = <<>> THEN <<>>
    ELSE IF Len(entries) = 1 THEN entries[1]
    ELSE entries[1] \o <<sep>> \o Join(Tail(entries), sep)

\* the PATH values the process may start with: system directories, no repeats
InitialEntries ==
    {<<>>} \cup {<<a>> : a \in SysDirs}
           \cup {e \in SysDirs \X SysDirs : e[1] # e[2]}

\* the arguments of an invocation: required_major_version, and whether
\* "import requests" succeeds in this environment
NoArgs == [required |-> 0, requests |-> FALSE]

NoProc == [returncode |-> 0, stdout |-> <<>>, stderr |-> <<>>]

\* what an invocation remembers of the state it started in
Snapshot ==
    [localPathExists |-> localPathExists, archive |-> archive,
     nodePathExists |-> nodePathExists, localNpm |-> localNpm,
     downloads |-> downloads, extracts |-> extracts]

Init ==
    /\ platform \in Platforms
    /\ \E entries \in InitialEntries : PATH = Join(entries, PathSep(platform))
    /\ npmAt \in [SysDirs -> NpmChoices]
    /\ nodePathExists \in BOOLEAN
    /\ localNpm \in (IF nodePathExists THEN NpmChoices ELSE {NoNpm})
    /\ localPathExists \in (IF nodePathExists THEN {TRUE} ELSE BOOLEAN)
    /\ archive = [kind |-> "absent", major |-> 0]
    /\ op = "none"
    /\ pc = "idle"
    /\ args = NoArgs
    /\ result = NoResult
    /\ caught = NoResult
    /\ calls = 0
    /\ startPATH = PATH
    /\ downloads = 0
    /\ extracts = 0
    /\ startFs = Snapshot
    /\ checkCalls = 0
    /\ probeRuns = 0
    /\ pathExtends = 0
    /\ trail = <<>>
    /\ tmpExists = FALSE
    /\ child = "none"
    /\ proc = NoProc

\* an operation is invoked: the bookkeeping every invocation shares
Invoke(name, a) ==
    /\ pc = "idle"
    /\ calls < MaxCalls
    /\ op' = name
    /\ args' = a
    /\ calls' = calls + 1
    /\ startPATH' = PATH
    /\ startFs' = Snapshot

Probes(c) == IF c.probed THEN 1 ELSE 0

(* ----------------------------- _check_npm ------------------------------ *)
CheckNpm(r) ==
    /\ Invoke("_check_npm", [NoArgs EXCEPT !.required = r])
    /\ LET c == _check_npm(PATH, r)
       IN  /\ result' = c.res
           /\ probeRuns' = Probes(c)
    /\ checkCalls' = 1
    /\ pc' = "done"
    /\ trail' = <<"check">>
    /\ UNCHANGED <<platform, PATH, fsVars, docsVars, caught, pathExtends,
                   downloads, extracts>>

(* ------------------------ _check_npm_with_local ------------------------ *)
\* the existence test left out
AlwaysExists == TRUE

\* (node_path).exists(), line 90
LocalInstallExists == nodePathExists

\* the bin subdirectory forgotten
PathWithLocalNoBin(plat, path) ==
    path \o <<IF plat = "Windows" THEN ";" ELSE ":">> \o node_path(plat)

\* the local directory put in front of PATH
PathWithLocalPrepended(plat, path) ==
    (IF plat = "Windows"
     THEN node_path(plat) \o <<";">>
     ELSE PathJoin(plat, node_path(plat), <<"bin">>) \o <<":">>) \o path

\* lines 92-97: PATH with node_binary_path appended
PathWithLocal(plat, path) ==
    path \o (IF plat = "Windows"
             THEN <<";">> \o node_path(plat)
             ELSE <<":">> \o PathJoin(plat, node_path(plat), <<"bin">>))

\* the caught exception raised again after a failed retry
RetryOutcomeFirst(first, retry) == first

\* what the except block lets out when it retries: the retry's own outcome
RetryOutcome(first, retry) == retry

\* line 88: the first _check_npm(); "except RuntimeError" catches its error
CwlTry ==
    /\ Invoke("_check_npm_with_local",
              [NoArgs EXCEPT !.required = npm_required_major_version])
    /\ LET c == _check_npm(PATH, npm_required_major_version)
       IN  /\ probeRuns' = Probes(c)
           /\ IF c.res.status = "error" /\ c.res.kind = "RuntimeError"
              THEN /\ caught' = c.res
                   /\ pc' = "except"
                   /\ result' = NoResult
              ELSE /\ caught' = NoResult
                   /\ pc' = "done"
                   /\ result' = c.res
    /\ checkCalls' = 1
    /\ trail' = <<"check">>
    /\ UNCHANGED <<platform, PATH, fsVars, docsVars, pathExtends, downloads,
                   extracts>>

\* lines 90-97 and 99-100
CwlExcept ==
    /\ op = "_check_npm_with_local" /\ pc = "except"
    /\ IF LocalInstallExists
       THEN /\ PATH' = PathWithLocal(platform, PATH)
            /\ pathExtends' = pathExtends + 1
            /\ pc' = "retry"
            /\ result' = result
            /\ trail' = Append(trail, "extend")
       ELSE /\ result' = caught
            /\ pc' = "done"
            /\ trail' = Append(trail, "reraise")
            /\ UNCHANGED <<PATH, pathExtends>>
    /\ UNCHANGED <<platform, fsVars, docsVars, op, args, caught, calls,
                   startPATH, startFs, checkCalls, probeRuns, downloads, extracts>>

\* line 98: the second _check_npm(), inside the except block
CwlRetry ==
    /\ op = "_check_npm_with_local" /\ pc = "retry"
    /\ LET c == _check_npm(PATH, npm_required_major_version)
       IN  /\ probeRuns' = probeRuns + Probes(c)
           /\ result' = IF c.res.status = "error"
                        THEN RetryOutcome(caught, c.res)
                        ELSE c.res
    /\ checkCalls' = checkCalls + 1
    /\ pc' = "done"
    /\ trail' = Append(trail, "check")
    /\ UNCHANGED <<platform, PATH, fsVars, docsVars, op, args, caught, calls,
                   startPATH, startFs, pathExtends, downloads, extracts>>

(* ---------------------------- _install_node ---------------------------- *)
MissingDependencyMsg ==
    <<"Please install docs version of fastkafka using 'pip install ",
      "fastkafka[docs]", "' command">>

\* what the server's response body may be: a NodeJS distribution whose npm
\* has some major version, or something that is no archive
Dist(m) == [kind |-> "dist", major |-> m]
NotAnArchive == [kind |-> "other", major |-> 0]
ResponseBodies == {Dist(m) : m \in Majors} \cup {NotAnArchive}

\* lines 150-154: the value assigned to os.environ["PATH"]; the conditional
\* expression binds weaker than "+"
InstalledPath(plat, path) ==
    IF plat = "Windows"
    THEN path \o <<";">> \o node_path(plat)
    ELSE <<":">> \o node_path(plat) \o <<"/", "bin">>

\* the except block logging without raising
AfterImportSwallowed(requests_ok) == "mkdir"

\* an archive already on disk reused
AfterMkdirSkipsExisting(ar) ==
    IF ar.kind = "absent" THEN "download" ELSE "extract"

\* lines 117-122: where control goes after "import requests"; the except
\* block logs and raises
AfterImport(requests_ok) == IF requests_ok THEN "mkdir" ELSE "done"

\* lines 125-126: the GET follows the mkdir, whatever is on disk
AfterMkdir(ar) == "download"

\* lines 117-124: "import requests"
InstallImport(requests_ok) ==
    /\ Invoke("_install_node", [NoArgs EXCEPT !.requests = requests_ok])
    /\ pc' = AfterImport(requests_ok)
    /\ result' = IF requests_ok THEN NoResult
                 ELSE Raise("RuntimeError", MissingDependencyMsg)
    /\ trail' = <<"import">>
    /\ checkCalls' = 0
    /\ probeRuns' = 0
    /\ UNCHANGED <<platform, PATH, fsVars, docsVars, caught, pathExtends,
                   downloads, extracts>>

\* line 125: local_path.mkdir(exist_ok=True, parents=True)
InstallMkdir ==
    /\ op = "_install_node" /\ pc = "mkdir"
    /\ localPathExists' = TRUE
    /\ pc' = AfterMkdir(archive)
    /\ trail' = Append(trail, "mkdir")
    /\ UNCHANGED <<platform, PATH, npmAt, nodePathExists, localNpm, archive,
                   docsVars, op, args, result, caught, calls, startPATH, startFs,
                   checkCalls, probeRuns, pathExtends, downloads, extracts>>

\* lines 126-138: the GET and the chunked write of the body to tgz_path
InstallDownload(body) ==
    /\ op = "_install_node" /\ pc = "download"
    /\ archive' = body
    /\ downloads' = downloads + 1
    /\ pc' = "extract"
    /\ trail' = Append(trail, "download")
    /\ UNCHANGED <<platform, PATH, npmAt, nodePathExists, localNpm,
                   localPathExists, docsVars, op, args, result, caught, calls,
                   startPATH, startFs, checkCalls, probeRuns, pathExtends, extracts>>

\* lines 126-138 when requests raises: in the GET (tgz_path untouched) or
\* while the body is streamed (tgz_path left truncated)
InstallDownloadFails(midway) ==
    /\ op = "_install_node" /\ pc = "download"
    /\ archive' = IF midway THEN NotAnArchive ELSE archive
    /\ result' = Raise("RequestException", <<>>)
    /\ pc' = "done"
    /\ trail' = Append(trail, "download_failed")
    /\ UNCHANGED <<platform, PATH, npmAt, nodePathExists, localNpm,
                   localPathExists, docsVars, op, args, caught, calls,
                   startPATH, startFs, checkCalls, probeRuns, pathExtends, downloads,
                   extracts>>

\* lines 140-148: the extraction of tgz_path into local_path
InstallExtract ==
    /\ op = "_install_node" /\ pc = "extract"
    /\ IF archive.kind = "dist"
       THEN /\ nodePathExists' = TRUE
            /\ localNpm' = Npm(archive.major)
            /\ extracts' = extracts + 1
            /\ pc' = "setpath"
            /\ result' = result
            /\ trail' = Append(trail, "extract")
       ELSE /\ result' = Raise(IF platform = "Windows" THEN "BadZipFile"
                                                        ELSE "ReadError", <<>>)
            /\ pc' = "done"
            /\ trail' = Append(trail, "extract_failed")
            /\ UNCHANGED <<nodePathExists, localNpm, extracts>>
    /\ UNCHANGED <<platform, PATH, npmAt, localPathExists, archive, docsVars,
                   op, args, caught, calls, startPATH, startFs, checkCalls, probeRuns,
                   pathExtends, downloads>>

\* lines 150-155
InstallSetPath ==
    /\ op = "_install_node" /\ pc = "setpath"
    /\ PATH' = InstalledPath(platform, PATH)
    /\ pathExtends' = pathExtends + 1
    /\ result' = Ok
    /\ pc' = "done"
    /\ trail' = Append(trail, "setpath")
    /\ UNCHANGED <<platform, fsVars, docsVars, op, args, caught, calls,
                   startPATH, startFs, checkCalls, probeRuns, downloads, extracts>>

(* ------------------------ _install_docs_npm_deps ----------------------- *)
\* the name TemporaryDirectory() chose
TmpDir == <<"/tmp/tmp_docs">>

\* lines 163-166
Cmd ==
    <<"npx -y -p @asyncapi/generator ag https://raw.githubusercontent.com/asyncapi/asyncapi/master/examples/simple.yml @asyncapi/html-template -o ">>
        \o TmpDir

Rule == <<"\n", "----------------------------------------", "\n">>

\* lines 183-193: the message of the ValueError
GeneratorFailedMsg(cmd, out, err, returncode) ==
    <<"AsyncAPI generator NOT installed, used '$ ">> \o cmd \o <<"'">>
        \o Rule \o <<"stdout:", "\n">> \o out
        \o Rule \o <<"stderr:", "\n">> \o err
        \o Rule \o <<"return_code=">> \o ToStr(returncode)

\* lines 173-193: how the body of the with block ends for a finished child
GeneratorOutcome(p) ==
    IF p.returncode = 0 THEN Ok
    ELSE IF ~Decode(p.stdout).ok \/ ~Decode(p.stderr).ok
      THEN Raise("UnicodeDecodeError", <<>>)
    ELSE Raise("ValueError",
               GeneratorFailedMsg(Cmd, Decode(p.stdout).text,
                                  Decode(p.stderr).text, p.returncode))

\* the directory removed on the normal exit only
TmpLeftOnError(outcome) == outcome.status = "error"

\* TemporaryDirectory.__exit__: whether the directory is still on disk after
\* the with block is left with the given outcome
TmpAfterExit(outcome) == FALSE

ReturnCodes == (0 - MaxReturnCode)..MaxReturnCode

\* what the child may write to a pipe: nothing, "ok\n", U+00E9 in UTF-8,
\* and a byte that is not UTF-8
Outputs == {<<>>, <<111, 107, 10>>, <<195, 169>>, <<255>>}

\* lines 162-171: the directory is created, the child is spawned, and the
\* coroutine awaits proc.communicate()
DocsStart ==
    /\ Invoke("_install_docs_npm_deps", NoArgs)
    /\ tmpExists' = TRUE
    /\ child' = "running"
    /\ proc' = NoProc
    /\ pc' = "awaiting"
    /\ result' = NoResult
    /\ trail' = <<"spawn">>
    /\ checkCalls' = 0
    /\ probeRuns' = 0
    /\ UNCHANGED <<platform, PATH, fsVars, caught, pathExtends, downloads,
                   extracts>>

\* the child process ends
ChildExits(returncode, out, err) ==
    /\ child = "running"
    /\ child' = "exited"
    /\ proc' = [returncode |-> returncode, stdout |-> out, stderr |-> err]
    /\ trail' = Append(trail, "child_exit")
    /\ UNCHANGED <<platform, PATH, fsVars, tmpExists, op, pc, args, result,
                   caught, calls, startPATH, startFs, checkCalls, probeRuns,
                   pathExtends, downloads, extracts>>

\* lines 171-193: communicate() returns, the return code is examined, and
\* the with block is left, normally or by the exception
DocsResume ==
    /\ op = "_install_docs_npm_deps" /\ pc = "awaiting"
    /\ child = "exited"
    /\ result' = GeneratorOutcome(proc)
    /\ tmpExists' = TmpAfterExit(GeneratorOutcome(proc))
    /\ pc' = "done"
    /\ trail' = Append(trail, IF GeneratorOutcome(proc).status = "ok"
                              THEN "return" ELSE "raise")
    /\ UNCHANGED <<platform, PATH, fsVars, child, proc, op, args, caught,
                   calls, startPATH, startFs, checkCalls, probeRuns, pathExtends,
                   downloads, extracts>>

(* ------------------------------ the caller ----------------------------- *)
\* the operation's outcome reaches the caller, which may invoke the next one
Return ==
    /\ pc = "done"
    /\ op' = "none"
    /\ pc' = "idle"
    /\ args' = NoArgs
    /\ result' = NoResult
    /\ caught' = NoResult
    /\ startPATH' = PATH
    /\ startFs' = Snapshot
    /\ checkCalls' = 0
    /\ probeRuns' = 0
    /\ pathExtends' = 0
    /\ trail' = <<>>
    /\ child' = "none"
    /\ proc' = NoProc
    /\ UNCHANGED <<platform, PATH, fsVars, tmpExists, calls, downloads,
                   extracts>>

RequiredVersions ==
    (npm_required_major_version - 1)..(npm_required_major_version + 1)

ToolNext ==
    \/ \E r \in RequiredVersions : CheckNpm(r)
    \/ CwlTry
    \/ CwlExcept
    \/ CwlRetry
    \/ \E requests_ok \in BOOLEAN : InstallImport(requests_ok)
    \/ InstallMkdir
    \/ \E body \in ResponseBodies : InstallDownload(body)
    \/ \E midway \in BOOLEAN : InstallDownloadFails(midway)
    \/ InstallExtract
    \/ InstallSetPath
    \/ Return

DocsNext ==
    \/ DocsStart
    \/ \E returncode \in ReturnCodes, out \in Outputs, err \in Outputs :
           ChildExits(returncode, out, err)
    \/ DocsResume
    \/ Return

\* the version checks and the installer
Next == ToolNext

Spec == Init /\ [][Next]_vars

\* the generator installation
DocsSpec == Init /\ [][DocsNext]_vars

(* ============================ properties =============================== *)
Contains(text, part) ==
    \E i \in 1..(Len(text) - Len(part) + 1) :
        SubSeq(text, i, i + Len(part) - 1) = part

Entries(path) == Split(path, PathSep(platform))

\* some directory of the path holds npm
ToolOnPath(path) ==
    \E i \in 1..Len(Entries(path)) : NpmIn(Entries(path)[i]).present

\* the npm a first-match search along the path finds
FirstNpm(path) ==
    LET e == Entries(path)
        i == CHOOSE k \in 1..Len(e) :
                 /\ NpmIn(e[k]).present
                 /\ \A j \in 1..(k - 1) : ~NpmIn(e[j]).present
    IN  NpmIn(e[i])

\* the executable directory of the local runtime, written out
LocalExecutableDir ==
    IF platform = "Windows"
    THEN <<"C:\\Users", "\\", "Public", "\\", "node-", "v18.15.0", "-", "win-x64">>
    ELSE <<"~", "/", ".local", "/", "node-", "v18.15.0", "-", "linux-x64",
           "/", "bin">>

InstallDone == op = "_install_node" /\ pc = "done"
CheckDone == op = "_check_npm" /\ pc = "done"
CwlDone == op = "_check_npm_with_local" /\ pc = "done"
DocsDone == op = "_install_docs_npm_deps" /\ pc = "done"

\* C1: after a successful _install_node, PATH is its value before the call
\* with the platform separator and the runtime's binary directory appended:
\* the earlier entries are kept in order and the new directory is last.
C1_PathAppended ==
    (InstallDone /\ result.status = "ok") =>
        /\ PATH = startPATH \o <<PathSep(platform)>> \o LocalExecutableDir
        /\ Entries(PATH) = Append(Entries(startPATH), LocalExecutableDir)

\* C2: _check_npm(r) succeeds when the npm found on PATH has major version
\* v >= r, raises the version-too-low error carrying v and r when v < r,
\* and raises the not-found error naming r, without running "npm --version",
\* when no npm is on PATH.
C2_CheckToolVersion ==
    CheckDone =>
        LET r == args.required
        IN  IF ToolOnPath(startPATH)
            THEN \E v \in Majors :
                    /\ FirstNpm(startPATH).out = VersionBytes(v)
                    /\ probeRuns = 1
                    /\ (v >= r) => result = Ok
                    /\ (v < r) =>
                          /\ IsVersionTooLow(result)
                          /\ Contains(result.msg,
                                 <<"Found installed npm major version: ">>
                                     \o ToStr(v) \o
                                 <<", required npx major version: ">>
                                     \o ToStr(r))
            ELSE /\ IsToolNotFound(result)
                 /\ Contains(result.msg, ToStr(r) \o <<" installed">>)
                 /\ probeRuns = 0

C2_Witness ==
    /\ CheckDone
    /\ IsVersionTooLow(result)
    /\ args.required = npm_required_major_version + 1
    /\ FirstNpm(startPATH).out = VersionBytes(npm_required_major_version)

\* C3: when the first check fails and the local install path does not
\* exist, _check_npm_with_local ends with exactly the first check's error,
\* without a retry and with PATH unchanged.
C3_NoLocalPropagates ==
    (CwlDone /\ caught.status = "error" /\ ~nodePathExists) =>
        /\ result = caught
        /\ result.kind = "RuntimeError"
        /\ IF ToolOnPath(startPATH)
           THEN IsVersionTooLow(result)
           ELSE result.msg = ToolNotFoundMsg(npm_required_major_version)
        /\ checkCalls = 1
        /\ pathExtends = 0
        /\ PATH = startPATH

C3_Witness ==
    /\ CwlDone
    /\ ~nodePathExists
    /\ IsToolNotFound(result)
    /\ trail = <<"check", "reraise">>

\* C4: when the first check fails and the local install path exists, PATH
\* is extended exactly once, by the local runtime's executable directory,
\* _check_npm is retried exactly once, and the call then ends; no call runs
\* _check_npm more than twice.
C4_OneExtensionOneRetry ==
    (op = "_check_npm_with_local") =>
        /\ checkCalls <= 2
        /\ pathExtends <= 1
        /\ (CwlDone /\ caught.status = "error" /\ nodePathExists) =>
              /\ trail = <<"check", "extend", "check">>
              /\ checkCalls = 2
              /\ pathExtends = 1
              /\ PATH = startPATH \o <<PathSep(platform)>> \o LocalExecutableDir

C4_Witness ==
    /\ CwlDone
    /\ caught.status = "error"
    /\ nodePathExists
    /\ platform = "Linux"
    /\ checkCalls = 2

\* C5 as stated: when the retry fails too, the call ends with the error of
\* the first check.
C5_OriginalErrorSurfaces ==
    (CwlDone /\ caught.status = "error" /\ nodePathExists
             /\ result.status = "error") =>
        result = caught

\* C5: when the first check fails, the local install path exists and the
\* retry fails too, the call ends with the retry's error: the error
\* _check_npm raises for the npm it finds along the extended PATH.
C5_RetryErrorSurfaces ==
    (CwlDone /\ caught.status = "error" /\ nodePathExists
             /\ result.status = "error") =>
        IF ToolOnPath(PATH)
        THEN \E v \in Majors :
                /\ FirstNpm(PATH).out = VersionBytes(v)
                /\ v < npm_required_major_version
                /\ result = Raise("RuntimeError",
                                  VersionTooLowMsg(v, npm_required_major_version))
        ELSE result = Raise("RuntimeError",
                            ToolNotFoundMsg(npm_required_major_version))

C5_Witness ==
    /\ CwlDone
    /\ nodePathExists
    /\ IsToolNotFound(caught)
    /\ IsVersionTooLow(result)

\* C6: _install_docs_npm_deps succeeds exactly when the child's return code
\* is 0; for every other return code it raises, after the child has
\* finished, the ValueError whose message holds the command line, the
\* captured stdout and stderr and "return_code=<code>".
C6_GeneratorInstallFailed ==
    DocsDone =>
        /\ (proc.returncode = 0) <=> (result = Ok)
        /\ (proc.returncode # 0) =>
              /\ result.status = "error"
              /\ result.kind = "ValueError"
              /\ Contains(result.msg, Cmd)
              /\ Decode(proc.stdout).ok =>
                     Contains(result.msg, Decode(proc.stdout).text)
              /\ Decode(proc.stderr).ok =>
                     Contains(result.msg, Decode(proc.stderr).text)
              /\ Contains(result.msg,
                          <<"return_code=">> \o ToStr(proc.returncode))
              /\ trail = <<"spawn", "child_exit", "raise">>

\* C7: the temporary directory exists while the child runs and is gone
\* once _install_docs_npm_deps has returned or raised.
C7_TmpDirScoped ==
    /\ (child = "running") => tmpExists
    /\ (pc = "awaiting") => tmpExists
    /\ DocsDone => ~tmpExists
    /\ (pc = "idle") => ~tmpExists

C7_Witness ==
    /\ DocsDone
    /\ result.status = "error"
    /\ calls = 2
    /\ ~tmpExists

\* C8: every _install_node that gets past the import attempts the download
\* and, when it has the body, the extraction, in that order, whatever is on
\* disk already; an invocation that succeeds has downloaded once and
\* extracted once.
C8_NoShortCircuit ==
    (op = "_install_node" /\ args.requests) =>
        /\ (pc \in {"extract", "setpath"} \/ InstallDone) =>
              /\ Len(trail) >= 3
              /\ SubSeq(trail, 1, 2) = <<"import", "mkdir">>
              /\ trail[3] \in {"download", "download_failed"}
        /\ (pc = "setpath" \/ (InstallDone /\ result.status = "ok")) =>
              /\ SubSeq(trail, 1, 4) = <<"import", "mkdir", "download", "extract">>
              /\ downloads = startFs.downloads + 1
              /\ extracts = startFs.extracts + 1

C8_Witness ==
    /\ InstallDone
    /\ result.status = "ok"
    /\ startFs.archive.kind = "dist"
    /\ startFs.nodePathExists
    /\ startFs.localPathExists
    /\ downloads = 2
    /\ extracts = 2

\* C9: without the requests package _install_node raises the error naming
\* the fastkafka[docs] extra before anything else: no directory is made,
\* nothing is downloaded, written or extracted, and PATH is unchanged.
C9_MissingDependencyFirst ==
    (op = "_install_node" /\ ~args.requests) =>
        /\ pc = "done"
        /\ result.status = "error"
        /\ result.kind = "RuntimeError"
        /\ Contains(result.msg, <<"fastkafka[docs]">>)
        /\ trail = <<"import">>
        /\ Snapshot = startFs
        /\ PATH = startPATH
        /\ pathExtends = 0

C9_Witness ==
    /\ InstallDone
    /\ ~args.requests
    /\ ~localPathExists
    /\ result.status = "error"

\* C10: an npm already on PATH keeps precedence over the local install:
\* when the first check raised version-too-low and the local install
\* exists, the call ends with the same version-too-low error, whatever npm
\* the local install holds; a call whose first check failed succeeds only
\* when that failure was not-found.
C10_SystemToolKeepsPrecedence ==
    (CwlDone /\ caught.status = "error") =>
        /\ (IsVersionTooLow(caught) /\ nodePathExists) =>
              /\ result = caught
              /\ FirstNpm(PATH) = FirstNpm(startPATH)
        /\ (result = Ok) => IsToolNotFound(caught)

C10_Witness ==
    /\ CwlDone
    /\ IsVersionTooLow(caught)
    /\ nodePathExists
    /\ localNpm = Npm(npm_required_major_version)
    /\ IsVersionTooLow(result)

====
